---------------------------- MODULE Spec2Model ----------------------------
(***************************************************************************)
(* Storefront product data access and listing logic:                       *)
(*   - the useProducts hook (two copies: the hook module, and the copy     *)
(*     that follows the application shell in client/main.tsx),             *)
(*   - the ProductsPage listing page (category mapping, subcategory        *)
(*     filter, fetch effect, add to cart),                                 *)
(*   - the BestSelling section and the ProductDetailPage (view models,     *)
(*     add to cart under the auth guard).                                  *)
(*                                                                         *)
(* Representation of JavaScript values                                     *)
(*   - a string the code scans (toLowerCase, includes, parseInt) or that   *)
(*     may be null is a tuple of one-character strings; NullStr is null    *)
(*     in such a slot, << >> is the empty string;                          *)
(*   - a string the code only compares or uses as a table key (slugs,      *)
(*     route categories, urls) is a TLA+ string;                           *)
(*   - an object that may be null is a record; NullObj is null there.      *)
(***************************************************************************)
EXTENDS Integers, Sequences, FiniteSets, Bags, TLC

NullStr == <<"null">>
NullObj == [null |-> TRUE]

(***************************************************************************)
(* Bounds of the model                                                     *)
(***************************************************************************)
MaxCatalog == 4
MaxLimit == 3
MaxInflight == 2
MaxPending == 2
MaxCartCalls == 2
MaxCalls == 2
Renders == 2
MaxBestPending == 3

(***************************************************************************)
(* JavaScript string primitives                                            *)
(***************************************************************************)
UpperCase ==
  <<"A","B","C","D","E","F","G","H","I","J","K","L","M",
    "N","O","P","Q","R","S","T","U","V","W","X","Y","Z">>
LowerCase ==
  <<"a","b","c","d","e","f","g","h","i","j","k","l","m",
    "n","o","p","q","r","s","t","u","v","w","x","y","z">>

ToLowerChar(c) ==
  IF \E i \in 1..Len(UpperCase) : UpperCase[i] = c
  THEN LowerCase[CHOOSE i \in 1..Len(UpperCase) : UpperCase[i] = c]
  ELSE c

\* String.prototype.toLowerCase
toLowerCase(s) == [i \in 1..Len(s) |-> ToLowerChar(s[i])]

\* String.prototype.includes: t occurs in s as a contiguous substring
includes(s, t) ==
  \E k \in 0..(Len(s) - Len(t)) : \A j \in 1..Len(t) : s[k + j] = t[j]

\* truthiness of a nullable string: null and "" are falsy
Truthy(s) == s # NullStr /\ s # << >>

(***************************************************************************)
(* The backend tables                                                      *)
(***************************************************************************)
\* categories(id, name, slug)
Categories ==
  { [id |-> <<"c1">>, name |-> "Men T-Shirts",   slug |-> "mens-t-shirts"],
    [id |-> <<"c2">>, name |-> "Women Leggings", slug |-> "womens-leggings"] }

Img(id, url, primary) == [id |-> id, image_url |-> url, is_primary |-> primary]
Var(id, size, color, code, stock, active) ==
  [id |-> id, size |-> size, color_name |-> color, color_code |-> code,
   stock_quantity |-> stock, is_active |-> active]

Row(id, name, description, category_id, slug, active, hot, rating, created, images, variants) ==
  [id |-> id, name |-> name, description |-> description,
   category_id |-> category_id, slug |-> slug, is_active |-> active,
   is_hot_sale |-> hot, rating |-> rating, created_at |-> created,
   images |-> images, variants |-> variants]

\* rows the products table may hold (columns of interface Product)
PA == Row(<<"p","1">>, <<"T","a","l","l"," ","T","e","e">>, <<"C","o","t","t","o","n">>,
          <<"c1">>, "tee", TRUE, TRUE, 5, 3,
          <<Img("i1", "/a1.png", FALSE), Img("i2", "/a2.png", TRUE)>>,
          <<Var(<<"v1">>, <<"M">>, <<"Black">>, <<"#000">>, 0, TRUE),
            Var(<<"v2">>, <<"M">>, <<"Black">>, <<"#000">>, 5, TRUE)>>)
PB == Row(<<"1">>, <<"P","o","l","o">>, NullStr,
          <<"c1">>, "polo", TRUE, FALSE, 3, 3,
          << >>,
          << >>)
PC == Row(<<"2">>, <<"V","-","N","e","c","k">>, <<"S","m","a","l","l">>,
          <<"c1">>, "vneck", TRUE, FALSE, 4, 2,
          <<Img("i3", "/c1.png", TRUE)>>,
          <<Var(<<"v3">>, NullStr, NullStr, NullStr, 3, FALSE),
            Var(<<"v4">>, << >>, << >>, <<"#fff">>, 0, TRUE)>>)
PD == Row(<<"1","a">>, <<"T","e","e">>, <<"P","O","L","O"," ","f","i","t">>,
          <<"c1">>, "tee", TRUE, FALSE, 4, 1,
          <<Img("i4", "/d1.png", FALSE)>>,
          <<Var(<<"v5">>, <<"L">>, <<"Red">>, <<"#f00">>, 2, FALSE),
            Var(<<"v6">>, <<"S">>, <<"Red">>, <<"#f00">>, 1, TRUE)>>)
PE == Row(<<"3">>, <<"L","e","g","g","i","n","g","s">>, << >>,
          <<"c2">>, "legging", TRUE, TRUE, 2, 2,
          << >>,
          <<Var(<<"v7">>, <<"M">>, <<"Navy">>, <<"#008">>, 4, TRUE)>>)
PF == Row(<<"x">>, <<"B","a","l","l"," ","c","a","p">>, NullStr,
          NullStr, "misc", TRUE, FALSE, 5, 1,
          << >>,
          << >>)
PG == Row(<<"1","2">>, <<"O","l","d"," ","p","o","l","o">>, <<"a","l","l">>,
          <<"c1">>, "polo", FALSE, TRUE, 5, 4,
          << >>,
          << >>)

Pool == {PA, PB, PC, PD, PE, PF, PG}

\* every table content of at most MaxCatalog rows (ids are the primary key)
Catalogs == {c \in SUBSET Pool : Cardinality(c) <= MaxCatalog}


(***************************************************************************)
(* The query client: filter, embed, order, limit, single                   *)
(***************************************************************************)
Min(a, b) == IF a <= b THEN a ELSE b
Range(s) == {s[i] : i \in 1..Len(s)}

\* category:categories(name, slug): the row with its category embedded
\* (null when the row has no category)
Embed(p) ==
  LET cs == {c \in Categories : c.id = p.category_id}
      c == CHOOSE c \in cs : TRUE
  IN [id |-> p.id, name |-> p.name, description |-> p.description,
      category_id |-> p.category_id, slug |-> p.slug, is_active |-> p.is_active,
      is_hot_sale |-> p.is_hot_sale, rating |-> p.rating,
      created_at |-> p.created_at, images |-> p.images, variants |-> p.variants,
      category |-> IF cs = {} THEN NullObj ELSE [name |-> c.name, slug |-> c.slug]]

\* from("products").select(...): every row of the table, embedded
Select(cat) == {Embed(p) : p \in cat}

Key(p, col) == IF col = "rating" THEN p.rating ELSE p.created_at

\* order(col, {ascending: false}): the row lists sorted by col, descending;
\* rows with equal keys come in any order
RECURSIVE OrderDesc(_, _)
OrderDesc(S, col) ==
  IF S = {} THEN {<< >>}
  ELSE LET top == {p \in S : \A q \in S : Key(q, col) <= Key(p, col)}
       IN UNION {{<<p>> \o t : t \in OrderDesc(S \ {p}, col)} : p \in top}

\* limit(n): the first n rows of the ordered list
Limit(s, n) == SubSeq(s, 1, Min(n, Len(s)))

\* what the backend may answer: "ok" (rows), "error" ({data: null, error}),
\* "reject" (the request promise rejects)
Outcomes == {"ok", "error", "reject"}

QueryError == <<"query failed">>
RowsError == <<"JSON object requested, multiple (or no) rows returned">>

\* The answers to a list query whose possible row lists are rowLists.  In
\* an answer with an error, data is << >> (it stands for null; the code
\* reads data only as `data || []`).
Responses(rowLists, outcome) ==
  IF outcome = "ok"
  THEN {[data |-> r, error |-> NullStr, rejected |-> FALSE] : r \in rowLists}
  ELSE IF outcome = "error"
  THEN {[data |-> << >>, error |-> QueryError, rejected |-> FALSE]}
  ELSE {[data |-> << >>, error |-> NullStr, rejected |-> TRUE]}

\* Mutant of Single: the first row of one or more rows is the data
Single_firstRow(resp) ==
  IF resp.rejected \/ resp.error # NullStr
  THEN [data |-> NullObj, error |-> resp.error, rejected |-> resp.rejected]
  ELSE IF Len(resp.data) >= 1
  THEN [data |-> resp.data[1], error |-> NullStr, rejected |-> FALSE]
  ELSE [data |-> NullObj, error |-> RowsError, rejected |-> FALSE]

\* single(): exactly one row is the data; zero or several rows are an error
Single(resp) ==
  IF resp.rejected \/ resp.error # NullStr
  THEN [data |-> NullObj, error |-> resp.error, rejected |-> resp.rejected]
  ELSE IF Len(resp.data) = 1
  THEN [data |-> resp.data[1], error |-> NullStr, rejected |-> FALSE]
  ELSE [data |-> NullObj, error |-> RowsError, rejected |-> FALSE]

\* `await query; if (error) throw error` inside try: control reaches catch
Thrown(resp) == resp.rejected \/ resp.error # NullStr

Returned(v) == [raised |-> FALSE, value |-> v]
Raised == [raised |-> TRUE, value |-> << >>]

(***************************************************************************)
(* useProducts: the row lists each accessor's query may yield              *)
(***************************************************************************)
AllActiveRows(cat) ==
  OrderDesc({p \in Select(cat) : p.is_active}, "created_at")

BySlugRows(cat, slug) ==
  OrderDesc({p \in Select(cat) : p.slug = slug /\ p.is_active}, "created_at")

ByIdRows(cat, id) ==
  OrderDesc({p \in Select(cat) : p.id = id /\ p.is_active}, "created_at")

\* Mutant of ByCategoryRows: the embed is not an inner join, so the filter on
\* the embedded category drops no product row
ByCategoryRows_leftJoin(cat, categorySlug) ==
  OrderDesc({p \in Select(cat) : p.is_active}, "created_at")

\* categories!inner with eq("category.slug", ...): rows without a matching
\* category are dropped
ByCategoryRows(cat, categorySlug) ==
  OrderDesc({p \in Select(cat) : /\ p.category # NullObj
                                 /\ p.category.slug = categorySlug
                                 /\ p.is_active}, "created_at")

\* Mutant of HotSaleRows: the is_active filter is missing
HotSaleRows_anyActivity(cat) ==
  OrderDesc({p \in Select(cat) : p.is_hot_sale}, "created_at")

HotSaleRows(cat) ==
  OrderDesc({p \in Select(cat) : p.is_hot_sale /\ p.is_active}, "created_at")

\* Mutant of RelatedRows: the neq("id", excludeProductId) filter is missing
RelatedRows_noExclusion(cat, categoryId, excludeProductId, limit) ==
  {Limit(s, limit) :
     s \in OrderDesc({p \in Select(cat) : /\ p.category_id = categoryId
                                          /\ p.is_active}, "created_at")}

RelatedRows(cat, categoryId, excludeProductId, limit) ==
  {Limit(s, limit) :
     s \in OrderDesc({p \in Select(cat) : /\ p.category_id = categoryId
                                          /\ p.id # excludeProductId
                                          /\ p.is_active}, "created_at")}

\* Mutant of RecommendedRows: the cap is applied to the newest-first list and
\* the capped rows are then put in rating order
RecommendedRows_capThenSort(cat, limit) ==
  UNION {OrderDesc(Range(Limit(s, limit)), "rating") :
           s \in OrderDesc({p \in Select(cat) : /\ p.is_active
                                                /\ (p.is_hot_sale \/ p.rating >= 4)},
                           "created_at")}

RecommendedRows(cat, limit) ==
  {Limit(s, limit) :
     s \in OrderDesc({p \in Select(cat) : /\ p.is_active
                                          /\ (p.is_hot_sale \/ p.rating >= 4)},
                     "rating")}

(***************************************************************************)
(* useProducts: what each accessor returns for an answer of the backend    *)
(***************************************************************************)
getProductBySlug(resp) ==
  IF Thrown(Single(resp)) THEN Returned(NullObj) ELSE Returned(Single(resp).data)

getProductById(resp) ==
  IF Thrown(Single(resp)) THEN Returned(NullObj) ELSE Returned(Single(resp).data)

getProductsByCategory(resp) ==
  IF Thrown(resp) THEN Returned(<< >>) ELSE Returned(resp.data)

getHotSaleProducts(resp) ==
  IF Thrown(resp) THEN Returned(<< >>) ELSE Returned(resp.data)

getAllProducts(resp) ==
  IF Thrown(resp) THEN Returned(<< >>) ELSE Returned(resp.data)

getRelatedProducts(resp) ==
  IF Thrown(resp) THEN Returned(<< >>) ELSE Returned(resp.data)

\* Mutant of getRecommendedProducts: a rejected request is not caught
getRecommendedProducts_uncaught(resp) ==
  IF resp.rejected THEN Raised
  ELSE IF Thrown(resp) THEN Returned(<< >>) ELSE Returned(resp.data)

getRecommendedProducts(resp) ==
  IF Thrown(resp) THEN Returned(<< >>) ELSE Returned(resp.data)

(***************************************************************************)
(* useProducts: fetchProducts, the hook's own state                        *)
(***************************************************************************)
MockRow(id, category_id, slug, hot, rating, catName, catSlug) ==
  [id |-> id, name |-> <<"mock product">>, description |-> <<"mock description">>,
   category_id |-> category_id, slug |-> slug, is_active |-> TRUE,
   is_hot_sale |-> hot, rating |-> rating, created_at |-> 0,
   images |-> <<Img(id[1], "/placeholder.svg", TRUE)>>,
   variants |-> <<Var(id, <<"M">>, <<"Black">>, <<"#000000">>, 50, TRUE)>>,
   category |-> [name |-> catName, slug |-> catSlug]]

\* the fallback written in fetchProducts' catch block
mockProducts ==
  << MockRow(<<"1">>, <<"1">>, "mens-round-neck-tshirt-premium", TRUE, 5, "Men", "men"),
     MockRow(<<"2">>, <<"2">>, "womens-3-4-leggings-comfort", TRUE, 4, "Women", "women"),
     MockRow(<<"3">>, <<"1">>, "mens-v-neck-tshirt-classic", FALSE, 4, "Men", "men") >>

\* err instanceof Error ? err.message : "An error occurred": a rejection
\* carries an Error; the query's error object is one or not with the
\* client's version
ErrorMessages(resp) ==
  IF resp.rejected THEN {<<"Failed to fetch">>}
  ELSE {resp.error, <<"An error occurred">>}

\* fetchProducts after its await, in the hook module: the hook state it
\* leaves, given the state h before
fetchProducts(resp, msg, h) ==
  IF Thrown(resp)
  THEN [products |-> mockProducts, error |-> msg, loading |-> FALSE]
  ELSE [products |-> resp.data, error |-> NullStr, loading |-> FALSE]

\* fetchProducts after its await, in the copy of the hook in client/main.tsx
fetchProducts_main(resp, msg, h) ==
  IF Thrown(resp)
  THEN [products |-> h.products, error |-> msg, loading |-> FALSE]
  ELSE [products |-> resp.data, error |-> h.error, loading |-> FALSE]

(***************************************************************************)
(* State                                                                   *)
(***************************************************************************)
VARIABLES
  driver,       \* what the run exercises: "accessors" (the functions the
                \* hook returns, called by a consumer), "repeat" (a consumer
                \* that makes the same call again), "hook" (the hook's
                \* own fetchProducts state), "page" (ProductsPage: route and
                \* filters), "pagecart" (ProductsPage: add to cart), "best"
                \* (BestSelling) or "detail" (ProductDetailPage); the
                \* components share no state
  catalog,      \* the rows of the products table
  ret,          \* the last completed accessor call: its arguments, the
                \* backend's outcome and what the call returned
  calls,        \* accessor invocations so far
  queries,      \* queries the backend has received from accessors so far
  before,         \* in a run that repeats a call ("repeat"): the call that
                \* completed before the last one
  hookCopy,     \* which definition of useProducts this hook instance runs
  mounted,      \* the hook's mount effect has run
  products,     \* useProducts: useState<Product[]>([])
  loading,      \* useProducts: useState(true)
  error,        \* useProducts: useState<string | null>(null)
  inflight,     \* fetchProducts calls suspended at their await
  lastFetch,    \* the backend's outcome for the last completed fetchProducts
  category,     \* ProductsPage: route parameter (NoCategory when absent)
  subcategory,  \* ProductsPage: ?subcategory= query parameter (null when absent)
  pageMounted,  \* ProductsPage: the effects of the first render have run
  pageProducts, \* ProductsPage: useState<Product[]>([])            (products)
  pageLoading,  \* ProductsPage: useState(true)                     (loading)
  filteredProducts, \* ProductsPage: useState<Product[]>([])
  selectedFilter,   \* ProductsPage: useState<string>('all')
  pending,      \* ProductsPage: the bag of fetches of the fetch effect that
                \* are suspended at their await
  lastDone,     \* ProductsPage: the fetch that completed last, with the
                \* backend's outcome and the value the accessor returned
  uncaught,     \* ProductsPage: the last event handler ended in an uncaught
                \* TypeError
  filterPath,   \* ProductsPage: what ran last on the filtered list: "effect"
                \* (the subcategory effect), "click" (handleFilterClick) or
                \* "none"
  user,         \* useAuth().user: the current user, or null
  cartCalls,    \* the calls of the cart service's addToCart so far, oldest
                \* first, each with the user it was made under
  lastClick,    \* the last add-to-cart click: the card clicked and what the
                \* handler did
  onAddToCart,  \* BestSelling: the onAddToCart prop is supplied
  bestMounted,  \* BestSelling: the effects of the first render have run
  bestSellingProducts, \* BestSelling: useState<Product[]>([])
  bestLoading,  \* BestSelling: useState(true)                    (loading)
  bestRender,   \* BestSelling: which render created the getHotSaleProducts
                \* function the component holds (a new function every
                \* render; they are told apart modulo Renders)
  bestPending,  \* BestSelling: getHotSaleProducts calls suspended at
                \* their await
  detailId,     \* ProductDetailPage: route parameter id
  detailMounted, \* ProductDetailPage: the effects of the first render have run
  detailProduct, \* ProductDetailPage: useState<Product | null>(null) (product)
  selectedSize, \* ProductDetailPage: useState('')
  selectedColor, \* ProductDetailPage: useState('')
  quantity      \* ProductDetailPage: useState(1)

repoVars == <<driver, catalog, ret, calls, queries, before>>
hookVars == <<hookCopy, mounted, products, loading, error, inflight, lastFetch>>
pageVars == <<category, subcategory, pageMounted, pageProducts, pageLoading,
              filteredProducts, selectedFilter, pending, lastDone, uncaught,
              filterPath>>
viewVars == <<user, cartCalls, lastClick, onAddToCart, bestMounted,
              bestSellingProducts, bestLoading, bestPending, bestRender, detailId,
              detailMounted, detailProduct, selectedSize, selectedColor,
              quantity>>
vars == <<driver, catalog, ret, calls, queries, before, hookCopy, mounted, products, loading, error, inflight,
          lastFetch, category, subcategory, pageMounted, pageProducts, pageLoading,
          filteredProducts, selectedFilter, pending, lastDone, uncaught,
          filterPath, user, cartCalls, lastClick, onAddToCart, bestMounted,
          bestSellingProducts, bestLoading, bestPending, bestRender, detailId,
          detailMounted, detailProduct, selectedSize, selectedColor, quantity>>

NoCall == [fn |-> "none", args |-> << >>, outcome |-> "none",
           raised |-> FALSE, value |-> << >>]

NoClick == [component |-> "none", card |-> NullStr, did |-> "none",
            productId |-> NullStr, payload |-> NullObj]

\* the state of the three views' hooks before anything is rendered
ViewsInitial ==
  /\ user = NullObj
  /\ cartCalls = << >>
  /\ lastClick = NoClick
  /\ onAddToCart = FALSE
  /\ bestMounted = FALSE
  /\ bestSellingProducts = << >>
  /\ bestLoading = TRUE
  /\ bestPending = 0
  /\ bestRender = 0
  /\ detailId = NullStr
  /\ detailMounted = FALSE
  /\ detailProduct = NullObj
  /\ selectedSize = << >>
  /\ selectedColor = << >>
  /\ quantity = 1

(***************************************************************************)
(* Arguments the callers may pass                                          *)
(***************************************************************************)
DefaultRelatedLimit == 4
DefaultRecommendedLimit == 6

Slugs == {p.slug : p \in Pool} \cup {"no-such-slug"}
Ids == {p.id : p \in Pool} \cup {<<"9">>}
CategorySlugs == {c.slug : c \in Categories} \cup {"saree-shapewear"}
CategoryIds == {c.id : c \in Categories} \cup {<<"c9">>}

(***************************************************************************)
(* Repository accessor calls (each call is one backend query)              *)
(***************************************************************************)
\* One accessor call at a time is followed: the call runs from the caller's
\* invocation to the value its promise resolves to (Call), and the awaiting
\* caller then takes that value (Resume).  Calls share no state, so
\* overlapping calls add nothing to what a call may return.
\* the consumer is not inside a call, and may make one more
Idle ==
  /\ driver \in {"accessors", "repeat"}
  /\ ret = NoCall
  /\ calls < MaxCalls

\* a consumer that repeats a call passes the arguments of the call before
SameAsBefore(fn, args) ==
  before = NoCall \/ (before.fn = fn /\ before.args = args)

\* an accessor that keeps the result of the call before and returns it to a
\* repeated call without asking the backend
Call_reusesEarlierResult(fn, args, outcome, r) ==
  /\ SameAsBefore(fn, args)
  /\ calls' = calls + 1
  /\ queries' = IF before = NoCall THEN queries + 1 ELSE queries
  /\ ret' = IF before = NoCall
              THEN [fn |-> fn, args |-> args, outcome |-> outcome,
                    raised |-> r.raised, value |-> r.value]
              ELSE before
  /\ UNCHANGED <<driver, catalog, before, hookVars, pageVars, viewVars>>

\* one invocation of an accessor: its query expression is awaited once, and
\* the function returns from the try or from the catch block
Call(fn, args, outcome, r) ==
  /\ SameAsBefore(fn, args)
  /\ calls' = calls + 1
  /\ queries' = queries + 1
  /\ ret' = [fn |-> fn, args |-> args, outcome |-> outcome,
             raised |-> r.raised, value |-> r.value]
  /\ UNCHANGED <<driver, catalog, before, hookVars, pageVars, viewVars>>

CallGetProductBySlug ==
  /\ Idle
  /\ \E slug \in Slugs, outcome \in Outcomes :
        \E resp \in Responses(BySlugRows(catalog, slug), outcome) :
          Call("getProductBySlug", [slug |-> slug], outcome, getProductBySlug(resp))

CallGetProductById ==
  /\ Idle
  /\ \E id \in Ids, outcome \in Outcomes :
        \E resp \in Responses(ByIdRows(catalog, id), outcome) :
          Call("getProductById", [id |-> id], outcome, getProductById(resp))

CallGetProductsByCategory ==
  /\ Idle
  /\ \E categorySlug \in CategorySlugs, outcome \in Outcomes :
        \E resp \in Responses(ByCategoryRows(catalog, categorySlug), outcome) :
          Call("getProductsByCategory", [categorySlug |-> categorySlug], outcome,
               getProductsByCategory(resp))

CallGetHotSaleProducts ==
  /\ Idle
  /\ \E outcome \in Outcomes :
        \E resp \in Responses(HotSaleRows(catalog), outcome) :
          Call("getHotSaleProducts", << >>, outcome, getHotSaleProducts(resp))

CallGetAllProducts ==
  /\ Idle
  /\ \E outcome \in Outcomes :
        \E resp \in Responses(AllActiveRows(catalog), outcome) :
          Call("getAllProducts", << >>, outcome, getAllProducts(resp))

CallGetRelatedProducts ==
  /\ Idle
  /\ \E categoryId \in CategoryIds, excludeProductId \in Ids,
         limit \in (0..MaxLimit) \cup {DefaultRelatedLimit}, outcome \in Outcomes :
        \E resp \in Responses(RelatedRows(catalog, categoryId, excludeProductId, limit), outcome) :
          Call("getRelatedProducts",
               [categoryId |-> categoryId, excludeProductId |-> excludeProductId,
                limit |-> limit],
               outcome, getRelatedProducts(resp))

CallGetRecommendedProducts ==
  /\ Idle
  /\ \E limit \in (0..MaxLimit) \cup {DefaultRecommendedLimit}, outcome \in Outcomes :
        \E resp \in Responses(RecommendedRows(catalog, limit), outcome) :
          Call("getRecommendedProducts", [limit |-> limit], outcome,
               getRecommendedProducts(resp))

\* the caller resumes after its await with the value returned
Resume ==
  /\ ret # NoCall
  /\ ret' = NoCall
  /\ before' = IF driver = "repeat" THEN ret ELSE before
  /\ UNCHANGED <<driver, catalog, calls, queries, hookVars, pageVars, viewVars>>

(***************************************************************************)
(* The hook instance: mount effect, refetch, completion of a fetch         *)
(***************************************************************************)
\* fetchProducts up to its await: setLoading(true), the query is issued
StartFetch ==
  /\ inflight < MaxInflight
  /\ loading' = TRUE
  /\ inflight' = inflight + 1

\* useEffect(() => { fetchProducts() }, [])
MountEffect ==
  /\ driver = "hook"
  /\ ~mounted
  /\ mounted' = TRUE
  /\ StartFetch
  /\ UNCHANGED <<repoVars, hookCopy, products, error, lastFetch, pageVars,
                 viewVars>>

\* refetch: fetchProducts called again by a consumer of the hook
Refetch ==
  /\ driver = "hook"
  /\ mounted
  /\ StartFetch
  /\ UNCHANGED <<repoVars, hookCopy, mounted, products, error, lastFetch, pageVars,
                 viewVars>>

HookState == [products |-> products, error |-> error, loading |-> loading]

\* the state a completed fetchProducts leaves in the hook
HookComplete(outcome, h) ==
  /\ products' = h.products
  /\ error' = h.error
  /\ loading' = h.loading
  /\ inflight' = inflight - 1
  /\ lastFetch' = outcome

Complete(outcome, h) ==
  /\ HookComplete(outcome, h)
  /\ UNCHANGED <<repoVars, hookCopy, mounted, pageVars, viewVars>>

\* the backend answers a suspended fetchProducts of the hook module
FetchProductsDone ==
  /\ hookCopy = "hooks/useProducts"
  /\ inflight > 0
  /\ \E outcome \in Outcomes :
       \E resp \in Responses(AllActiveRows(catalog), outcome) :
         \E msg \in ErrorMessages(resp) :
           Complete(outcome, fetchProducts(resp, msg, HookState))

\* the backend answers a suspended fetchProducts of the main.tsx copy
FetchProductsDone_main ==
  /\ hookCopy = "client/main.tsx"
  /\ inflight > 0
  /\ \E outcome \in Outcomes :
       \E resp \in Responses(AllActiveRows(catalog), outcome) :
         \E msg \in ErrorMessages(resp) :
           Complete(outcome, fetchProducts_main(resp, msg, HookState))

(***************************************************************************)
(* ProductsPage: the lookup tables                                         *)
(***************************************************************************)
\* names every object literal inherits from Object.prototype: obj[name] is
\* then a function (or, for __proto__, an object), which is truthy
ObjectPrototypeKeys ==
  {"constructor", "toString", "toLocaleString", "valueOf", "hasOwnProperty",
   "isPrototypeOf", "propertyIsEnumerable", "__proto__"}

\* what such an inherited value is when it is used as a string
InheritedAsString(key) == "[Object.prototype." \o key \o "]"

categoryMap ==
  ("men" :> "mens-t-shirts") @@
  ("men-tshirts" :> "mens-t-shirts") @@
  ("men-bottomwear" :> "mens-bottomwear") @@
  ("women" :> "womens-leggings") @@
  ("women-leggings" :> "womens-leggings") @@
  ("shapewear" :> "saree-shapewear") @@
  ("nightwear" :> "night-wear")

\* const mapped = categoryMap[category] || category; return mapped
getCategorySlug(cat) ==
  IF cat \in DOMAIN categoryMap THEN categoryMap[cat]
  ELSE IF cat \in ObjectPrototypeKeys THEN InheritedAsString(cat)
  ELSE cat

filterMap ==
  ("men" :> <<<<"A","l","l">>,
      <<"T","-","S","h","i","r","t","s">>,
      <<"R","o","u","n","d"," ","N","e","c","k">>,
      <<"V","-","N","e","c","k">>,
      <<"P","o","l","o">>,
      <<"T","r","a","c","k"," ","P","a","n","t","s">>,
      <<"S","h","o","r","t","s">>>>) @@
  ("men-tshirts" :> <<<<"A","l","l">>,
      <<"R","o","u","n","d"," ","N","e","c","k">>,
      <<"V","-","N","e","c","k">>,
      <<"P","o","l","o">>,
      <<"L","o","n","g"," ","S","l","e","e","v","e">>,
      <<"S","l","e","e","v","e","l","e","s","s">>>>) @@
  ("men-bottomwear" :> <<<<"A","l","l">>,
      <<"T","r","a","c","k"," ","P","a","n","t","s">>,
      <<"S","h","o","r","t","s">>>>) @@
  ("women" :> <<<<"A","l","l">>,
      <<"L","e","g","g","i","n","g","s">>,
      <<"S","h","a","p","e","w","e","a","r">>,
      <<"N","i","g","h","t"," ","W","e","a","r">>,
      <<"3","/","4"," ","L","e","g","g","i","n","g","s">>>>) @@
  ("women-leggings" :> <<<<"A","l","l">>,
      <<"F","l","a","t"," ","A","n","k","l","e">>,
      <<"F","u","l","l"," ","L","e","n","g","t","h">>,
      <<"C","h","u","r","i","d","h","a","r">>,
      <<"S","h","i","m","m","e","r">>,
      <<"3","/","4"," ","L","e","n","g","t","h">>>>) @@
  ("shapewear" :> <<<<"A","l","l">>,
      <<"L","y","c","r","a"," ","C","o","t","t","o","n">>,
      <<"P","o","l","y","e","s","t","e","r">>,
      <<"S","h","i","m","m","e","r">>>>) @@
  ("nightwear" :> <<<<"A","l","l">>,
      <<"N","i","g","h","t"," ","T","-","S","h","i","r","t","s">>,
      <<"S","h","o","r","t","s">>>>)

AllLabel == <<"A","l","l">>
all == <<"a","l","l">>

\* filterMap[category || 'all'] || ['All']; an inherited value is no list of
\* labels: it has a length of at most 1, and no filter tab is rendered
getSubcategoryFilters(cat) ==
  IF cat \in DOMAIN filterMap THEN filterMap[cat]
  ELSE IF cat \in ObjectPrototypeKeys THEN << >>
  ELSE <<AllLabel>>

(***************************************************************************)
(* ProductsPage: the two filter paths                                      *)
(***************************************************************************)
\* a predicate that looks at the name only
EffectMatch_nameOnly(product, token) ==
  includes(toLowerCase(product.name), toLowerCase(token))

\* the predicate of the subcategory effect: name, or description?. (a null
\* description gives undefined, which is falsy)
EffectMatch(product, token) ==
  \/ includes(toLowerCase(product.name), toLowerCase(token))
  \/ /\ product.description # NullStr
     /\ includes(toLowerCase(product.description), toLowerCase(token))

\* a filter that leaves out the first product that matches
SubcategoryEffect_skipsFirstMatch(prods, sub) ==
  IF Truthy(sub) /\ sub # all
  THEN LET Test(product) == EffectMatch(product, sub)
           hits == SelectSeq(prods, Test)
       IN [filtered |-> IF hits = << >> THEN hits ELSE Tail(hits),
           selected |-> sub]
  ELSE [filtered |-> prods, selected |-> all]

\* useEffect(..., [subcategory, products]): the filtered list and the
\* selected filter it sets
SubcategoryEffect(prods, sub) ==
  IF Truthy(sub) /\ sub # all
  THEN LET Test(product) == EffectMatch(product, sub)
       IN [filtered |-> SelectSeq(prods, Test), selected |-> sub]
  ELSE [filtered |-> prods, selected |-> all]

\* the predicate of handleFilterClick reads description.toLowerCase() when the
\* name does not match: a null description throws a TypeError there
ClickThrows(product, filter) ==
  /\ ~includes(toLowerCase(product.name), toLowerCase(filter))
  /\ product.description = NullStr

ClickMatch(product, filter) ==
  \/ includes(toLowerCase(product.name), toLowerCase(filter))
  \/ includes(toLowerCase(product.description), toLowerCase(filter))

\* handleFilterClick(filter): the filtered list it sets; threw when the
\* filter callback raised, and setFilteredProducts was not reached
FilterClick(prods, old, filter) ==
  IF filter = AllLabel \/ filter = all
  THEN [threw |-> FALSE, filtered |-> prods]
  ELSE IF \E i \in 1..Len(prods) : ClickThrows(prods[i], filter)
  THEN [threw |-> TRUE, filtered |-> old]
  ELSE LET Test(product) == ClickMatch(product, filter)
       IN [threw |-> FALSE, filtered |-> SelectSeq(prods, Test)]

(***************************************************************************)
(* ProductsPage: route, effects, handlers                                  *)
(***************************************************************************)
NoCategory == ""

\* the route categories and subcategory tokens followed
RouteCategories == {NoCategory, "all", "men", "constructor"}
Subcategories ==
  {NullStr, << >>, all, <<"A","L","L">>, <<"p","o","l","o">>}

\* the tables the page is followed on
PageCatalogs == {{PA, PB, PD, PE, PF, PG}, {}}

NoFetch == [category |-> "(none)", fn |-> "none", categorySlug |-> "",
            outcome |-> "none", value |-> << >>]

\* the fetch effect up to its await: which accessor it calls, with what
Fetch(cat) ==
  IF cat # NoCategory /\ cat # "all"
  THEN [category |-> cat, fn |-> "getProductsByCategory",
        categorySlug |-> getCategorySlug(cat)]
  ELSE [category |-> cat, fn |-> "getAllProducts", categorySlug |-> ""]

\* useEffect(..., [category]): setLoading(true), the accessor is called
FetchEffect(cat) ==
  /\ BagCardinality(pending) < MaxPending
  /\ pageLoading' = TRUE
  /\ pending' = pending (+) SetToBag({Fetch(cat)})

\* useEffect(..., [subcategory, products]) on the values of the new render
RunSubcategoryEffect(prods, sub) ==
  /\ filteredProducts' = SubcategoryEffect(prods, sub).filtered
  /\ selectedFilter' = SubcategoryEffect(prods, sub).selected
  /\ filterPath' = "effect"

\* the runs that render ProductsPage: "page" follows the route and the
\* filters, "pagecart" the add-to-cart clicks on the fetched list
PageDrivers == {"page", "pagecart"}

\* first render: both effects run
PageMount ==
  /\ driver \in PageDrivers
  /\ ~pageMounted
  /\ pageMounted' = TRUE
  /\ FetchEffect(category)
  /\ RunSubcategoryEffect(pageProducts, subcategory)
  /\ UNCHANGED <<repoVars, hookVars, viewVars, category, subcategory, pageProducts,
                 lastDone, uncaught>>

\* the route's category changes: the fetch effect runs again
NavigateCategory ==
  /\ driver = "page"
  /\ pageMounted
  /\ \E cat \in RouteCategories \ {category} :
       /\ category' = cat
       /\ FetchEffect(cat)
  /\ UNCHANGED <<repoVars, hookVars, viewVars, subcategory, pageMounted, pageProducts,
                 filteredProducts, selectedFilter, lastDone, uncaught,
                 filterPath>>

\* the route's subcategory changes: the subcategory effect runs again
NavigateSubcategory ==
  /\ driver = "page"
  /\ pageMounted
  /\ \E sub \in Subcategories \ {subcategory} :
       /\ subcategory' = sub
       /\ RunSubcategoryEffect(pageProducts, sub)
  /\ UNCHANGED <<repoVars, hookVars, viewVars, category, pageMounted, pageProducts,
                 pageLoading, pending, lastDone, uncaught>>

FetchRows(f) ==
  IF f.fn = "getProductsByCategory" THEN ByCategoryRows(catalog, f.categorySlug)
  ELSE AllActiveRows(catalog)

FetchReturn(f, resp) ==
  IF f.fn = "getProductsByCategory" THEN getProductsByCategory(resp)
  ELSE getAllProducts(resp)

\* a completion that drops the answer of a fetch the route has moved on from
PageFetchDone_discardsStale ==
  /\ driver \in PageDrivers
  /\ \E f \in BagToSet(pending), outcome \in Outcomes :
       \E resp \in Responses(FetchRows(f), outcome) :
         LET r == FetchReturn(f, resp)
         IN /\ pending' = pending (-) SetToBag({f})
            /\ pageLoading' = FALSE
            /\ lastDone' = [category |-> f.category, fn |-> f.fn,
                            categorySlug |-> f.categorySlug,
                            outcome |-> outcome, value |-> r.value]
            /\ IF f.category # category
               THEN UNCHANGED <<pageProducts, filteredProducts, selectedFilter,
                                filterPath>>
               ELSE /\ pageProducts' = r.value
                    /\ RunSubcategoryEffect(r.value, subcategory)
  /\ UNCHANGED <<repoVars, hookVars, viewVars, category, subcategory, pageMounted, uncaught>>

\* the backend answers one of the suspended fetches (whichever): the rest of
\* the fetch effect's fetchProducts runs, then the subcategory effect, since
\* products changed
PageFetchDone ==
  /\ driver \in PageDrivers
  /\ \E f \in BagToSet(pending), outcome \in Outcomes :
       \E resp \in Responses(FetchRows(f), outcome) :
         LET r == FetchReturn(f, resp)
         IN /\ pending' = pending (-) SetToBag({f})
            /\ pageLoading' = FALSE
            /\ lastDone' = [category |-> f.category, fn |-> f.fn,
                            categorySlug |-> f.categorySlug,
                            outcome |-> outcome, value |-> r.value]
            /\ IF r.raised
               THEN UNCHANGED <<pageProducts, filteredProducts, selectedFilter,
                                filterPath>>
               ELSE /\ pageProducts' = r.value
                    /\ RunSubcategoryEffect(r.value, subcategory)
  /\ UNCHANGED <<repoVars, hookVars, viewVars, category, subcategory, pageMounted, uncaught>>

\* a click handler that filters the products state itself
HandleFilterClick_filtersInPlace ==
  /\ driver = "page"
  /\ pageMounted
  /\ ~pageLoading
  /\ \E k \in 2..Len(getSubcategoryFilters(category)) :
       LET filter == getSubcategoryFilters(category)[k]
           r == FilterClick(pageProducts, filteredProducts, filter)
       IN /\ selectedFilter' = filter
          /\ filteredProducts' = r.filtered
          /\ pageProducts' = r.filtered
          /\ uncaught' = r.threw
          /\ filterPath' = "click"
  /\ UNCHANGED <<repoVars, hookVars, viewVars, category, subcategory, pageMounted,
                 pageLoading, pending, lastDone>>

\* a filter tab is clicked (tabs are rendered when the page is not loading
\* and the category has more than one filter)
HandleFilterClick ==
  /\ driver = "page"
  /\ pageMounted
  /\ ~pageLoading
  /\ Len(getSubcategoryFilters(IF category = NoCategory THEN "all" ELSE category)) > 1
  /\ \E k \in 1..Len(getSubcategoryFilters(category)) :
       LET filter == getSubcategoryFilters(category)[k]
           r == FilterClick(pageProducts, filteredProducts, filter)
       IN /\ selectedFilter' = filter
          /\ filteredProducts' = r.filtered
          /\ uncaught' = r.threw
          /\ filterPath' = "click"
  /\ UNCHANGED <<repoVars, hookVars, viewVars, category, subcategory, pageMounted,
                 pageProducts, pageLoading, pending, lastDone>>

PageInit ==
  /\ driver = "page"
  /\ catalog \in PageCatalogs
  /\ ret = NoCall
  /\ calls = 0
  /\ queries = 0
  /\ before = NoCall
  /\ hookCopy = "hooks/useProducts"
  /\ mounted = FALSE
  /\ products = << >>
  /\ loading = TRUE
  /\ error = NullStr
  /\ inflight = 0
  /\ lastFetch = "none"
  /\ category \in RouteCategories
  /\ subcategory \in Subcategories
  /\ pageMounted = FALSE
  /\ pageProducts = << >>
  /\ pageLoading = TRUE
  /\ filteredProducts = << >>
  /\ selectedFilter = all
  /\ pending = EmptyBag
  /\ lastDone = NoFetch
  /\ uncaught = FALSE
  /\ filterPath = "none"
  /\ ViewsInitial

PageNext ==
  \/ PageMount
  \/ NavigateCategory
  \/ NavigateSubcategory
  \/ PageFetchDone
  \/ HandleFilterClick

SpecPage == PageInit /\ [][PageNext]_vars

(***************************************************************************)
(* Specification of useProducts                                            *)
(***************************************************************************)
\* the tables a repeated call is followed on
RepeatCatalogs == {{PA, PB, PD, PG}, {PC, PE}, {}}

RepoInit ==
  /\ driver \in {"accessors", "hook", "repeat"}
  /\ catalog \in IF driver = "repeat" THEN RepeatCatalogs ELSE Catalogs
  /\ ret = NoCall
  /\ calls = 0
  /\ queries = 0
  /\ before = NoCall
  /\ hookCopy \in IF driver = "hook" THEN {"hooks/useProducts", "client/main.tsx"}
                                     ELSE {"hooks/useProducts"}
  /\ mounted = FALSE
  /\ products = << >>
  /\ loading = TRUE
  /\ error = NullStr
  /\ inflight = 0
  /\ lastFetch = "none"
  /\ category = NoCategory
  /\ subcategory = NullStr
  /\ pageMounted = FALSE
  /\ pageProducts = << >>
  /\ pageLoading = TRUE
  /\ filteredProducts = << >>
  /\ selectedFilter = all
  /\ pending = EmptyBag
  /\ lastDone = NoFetch
  /\ uncaught = FALSE
  /\ filterPath = "none"
  /\ ViewsInitial

RepoNext ==
  \/ CallGetProductBySlug
  \/ CallGetProductById
  \/ CallGetProductsByCategory
  \/ CallGetHotSaleProducts
  \/ CallGetAllProducts
  \/ CallGetRelatedProducts
  \/ CallGetRecommendedProducts
  \/ Resume
  \/ MountEffect
  \/ Refetch
  \/ FetchProductsDone
  \/ FetchProductsDone_main

SpecRepo == RepoInit /\ [][RepoNext]_vars

(***************************************************************************)
(* The views: what the cards and the detail page derive from a product     *)
(***************************************************************************)
\* a JavaScript number that is an integer or NaN: <<n>>, or << >> for NaN
NaN == << >>
Num(n) == <<n>>

\* a === b on such numbers: NaN equals nothing, itself included
StrictEq(a, b) == a # NaN /\ a = b

Digits == <<"0","1","2","3","4","5","6","7","8","9">>
IsDigit(c) == \E i \in 1..Len(Digits) : Digits[i] = c
DigitValue(c) == (CHOOSE i \in 1..Len(Digits) : Digits[i] = c) - 1

RECURSIVE SkipSpaces(_)
SkipSpaces(s) ==
  IF s # << >> /\ Head(s) = " " THEN SkipSpaces(Tail(s)) ELSE s

RECURSIVE DigitsValue(_, _)
DigitsValue(s, k) ==
  IF k = 0 THEN 0 ELSE 10 * DigitsValue(s, k - 1) + DigitValue(s[k])

\* parseInt(string): leading white space is skipped, a sign is read, then
\* the longest run of digits; NaN when no digit is read
parseInt(str) ==
  LET t == SkipSpaces(str)
      signed == t # << >> /\ Head(t) \in {"-", "+"}
      u == IF signed THEN Tail(t) ELSE t
      k == CHOOSE n \in 0..Len(u) :
             /\ \A j \in 1..n : IsDigit(u[j])
             /\ n < Len(u) => ~IsDigit(u[n + 1])
  IN IF k = 0 THEN NaN
     ELSE IF signed /\ Head(t) = "-" THEN Num(0 - DigitsValue(u, k))
     ELSE Num(DigitsValue(u, k))

Placeholder == "/placeholder.svg"

\* product.images?.[0]?.image_url || '/placeholder.svg'
FirstImageUrl(product) ==
  IF product.images = << >> \/ product.images[1].image_url = ""
  THEN Placeholder
  ELSE product.images[1].image_url

\* images.find(img => img.is_primary) || images[0], then
\* ?.image_url || '/placeholder.svg'
PrimaryImageUrl(product) ==
  LET images == product.images
      primaries == {i \in 1..Len(images) : images[i].is_primary}
  IN IF primaries = {} THEN FirstImageUrl(product)
     ELSE LET first == CHOOSE i \in primaries : \A j \in primaries : i <= j
          IN IF images[first].image_url = "" THEN Placeholder
             ELSE images[first].image_url

\* [...new Set(values)] of strings: the first occurrence of each is kept
RECURSIVE Distinct(_)
Distinct(s) ==
  IF s = << >> THEN << >>
  ELSE LET front == Distinct(SubSeq(s, 1, Len(s) - 1))
           last == s[Len(s)]
       IN IF \E i \in 1..Len(front) : front[i] = last THEN front
          ELSE Append(front, last)

\* BestSelling card: variants?.filter(v => v.color_code).map(v => ({name:
\* v.color_name || 'Color', color: v.color_code || '#000000'}))
colors(product) ==
  LET Coded(v) == Truthy(v.color_code)
      coded == SelectSeq(product.variants, Coded)
  IN [i \in 1..Len(coded) |->
        [name |-> IF Truthy(coded[i].color_name) THEN coded[i].color_name
                  ELSE <<"C","o","l","o","r">>,
         color |-> coded[i].color_code]]

\* BestSelling card: variants?.filter(v => v.size).map(v => v.size!)
\* .filter(Boolean)
sizes(product) ==
  LET Sized(v) == Truthy(v.size)
      sized == SelectSeq(product.variants, Sized)
  IN [i \in 1..Len(sized) |-> sized[i].size]

\* BestSelling: the view model of one card (price, rating and category
\* name are display text and left out)
BestCard(product) ==
  [id |-> parseInt(product.id),
   name |-> product.name,
   image |-> FirstImageUrl(product),
   colors |-> colors(product),
   sizes |-> sizes(product)]

\* ProductsPage: the props of one card of the grid (the colors are three
\* constants)
PageCard(product) ==
  [id |-> parseInt(product.id),
   name |-> product.name,
   image |-> FirstImageUrl(product)]

\* ProductDetailPage: primaryImage?.image_url || '/placeholder.svg'
MainImage(product) == PrimaryImageUrl(product)

\* ProductDetailPage: [...new Set(variants.map(v => v.size).filter(Boolean))]
SizeOptions(product) ==
  LET all_sizes == [i \in 1..Len(product.variants) |-> product.variants[i].size]
  IN Distinct(SelectSeq(all_sizes, Truthy))

\* ProductDetailPage: [...new Set(variants.map(v => ({name: v.color_name,
\* code: v.color_code})).filter(c => c.name))]: every element is a
\* fresh object, and a Set keeps objects by identity, so none is dropped
ColorSwatches(product) ==
  LET Named(v) == Truthy(v.color_name)
      named == SelectSeq(product.variants, Named)
  IN [i \in 1..Len(named) |->
        [name |-> named[i].color_name, code |-> named[i].color_code]]

\* the first variant of the collection, available or not
firstVariant_firstInOrder(product) ==
  IF product.variants = << >> THEN NullObj ELSE Head(product.variants)

\* variants?.find(v => v.is_active && v.stock_quantity > 0)
firstVariant(product) ==
  LET Available(v) == v.is_active /\ v.stock_quantity > 0
      available == SelectSeq(product.variants, Available)
  IN IF available = << >> THEN NullObj ELSE Head(available)

\* firstVariant?.id || null
VariantIdOrNull(variant) ==
  IF variant = NullObj \/ ~Truthy(variant.id) THEN NullStr ELSE variant.id

(***************************************************************************)
(* The views: auth context, cart service, add to cart in ProductsPage      *)
(***************************************************************************)
User1 == [id |-> "u1"]

\* rows marked as hot sale, for the best-selling section
Hot(p) == [p EXCEPT !.is_hot_sale = TRUE]

\* the tables the views are followed on
ViewCatalogs ==
  {{PA, Hot(PB), Hot(PC), Hot(PD), Hot(PF)}, {PA, Hot(PD), PE}, {}}

\* one call of the cart service's addToCart with the given arguments;
\* times > 1 stands for that many consecutive calls with these arguments
CartCall(by, args, times) ==
  [by |-> by, args |-> args, times |-> times, user |-> user]

\* the first element of prods that satisfies p => p.id === id, or null
FindById(prods, id) ==
  LET hits == {j \in 1..Len(prods) : prods[j].id = id}
  IN IF hits = {} THEN NullObj
     ELSE prods[CHOOSE j \in hits : \A k \in hits : j <= k]

\* the auth context reports a login or a logout; ProductsPage and
\* ProductDetailPage render again, no effect of theirs depends on the user
AuthChange ==
  /\ driver \in {"pagecart", "detail"}
  /\ user' = IF user = NullObj THEN User1 ELSE NullObj
  /\ UNCHANGED <<repoVars, hookVars, pageVars, cartCalls, lastClick,
                 onAddToCart, bestMounted, bestSellingProducts, bestLoading,
                 bestPending, bestRender, detailId, detailMounted, detailProduct,
                 selectedSize, selectedColor, quantity>>

\* ProductsPage.handleAddToCart(productId) up to its await, and the toast
\* after it: the cart service resolves or rejects
PageHandleAddToCart(productId) ==
  IF user = NullObj
  THEN /\ lastClick' = [component |-> "ProductsPage", card |-> productId,
                        did |-> "login required", productId |-> NullStr,
                        payload |-> NullObj]
       /\ UNCHANGED cartCalls
  ELSE LET product == FindById(pageProducts, productId)
       IN IF product = NullObj
          THEN /\ lastClick' = [component |-> "ProductsPage", card |-> productId,
                                did |-> "not found", productId |-> NullStr,
                                payload |-> NullObj]
               /\ UNCHANGED cartCalls
          ELSE /\ Len(cartCalls) < MaxCartCalls
               /\ cartCalls' = Append(cartCalls,
                    CartCall("ProductsPage",
                             <<productId, VariantIdOrNull(firstVariant(product)), 1>>,
                             1))
               /\ \E did \in {"added", "error"} :
                    lastClick' = [component |-> "ProductsPage", card |-> productId,
                                  did |-> did, productId |-> productId,
                                  payload |-> NullObj]

\* the add-to-cart button of a card of the grid is clicked
PageAddToCart ==
  /\ driver = "pagecart"
  /\ pageMounted
  /\ ~pageLoading
  /\ \E i \in 1..Len(filteredProducts) :
       PageHandleAddToCart(filteredProducts[i].id)
  /\ UNCHANGED <<repoVars, hookVars, pageVars, user, onAddToCart, bestMounted,
                 bestSellingProducts, bestLoading, bestPending, bestRender, detailId,
                 detailMounted, detailProduct, selectedSize, selectedColor,
                 quantity>>

(***************************************************************************)
(* BestSelling                                                             *)
(***************************************************************************)
\* useEffect(..., [getHotSaleProducts]): useProducts builds its accessors
\* anew on every render, so the dependency differs after every render and
\* the effect runs again (the render is the one that follows the render
\* before): one more getHotSaleProducts call is suspended
BestFetchEffect(stillPending) ==
  /\ stillPending < MaxBestPending
  /\ bestPending' = stillPending + 1
  /\ bestRender' = (bestRender + 1) % Renders

\* first render: the mount effect of the component's useProducts instance
\* and the fetch effect run
BestMount ==
  /\ driver = "best"
  /\ ~bestMounted
  /\ bestMounted' = TRUE
  /\ mounted' = TRUE
  /\ StartFetch
  /\ BestFetchEffect(bestPending)
  /\ UNCHANGED <<repoVars, hookCopy, products, error, lastFetch, pageVars,
                 user, cartCalls, lastClick, onAddToCart, bestSellingProducts,
                 bestLoading, detailId, detailMounted, detailProduct,
                 selectedSize, selectedColor, quantity>>

\* the fetchProducts of the component's useProducts instance completes: the
\* hook's state changes, the component renders again
BestHookFetchDone ==
  /\ driver = "best"
  /\ inflight > 0
  /\ \E outcome \in Outcomes :
       \E resp \in Responses(AllActiveRows(catalog), outcome) :
         \E msg \in ErrorMessages(resp) :
           HookComplete(outcome, fetchProducts(resp, msg, HookState))
  /\ BestFetchEffect(bestPending)
  /\ UNCHANGED <<repoVars, hookCopy, mounted, pageVars, bestMounted,
                 user, cartCalls, lastClick, onAddToCart, bestSellingProducts,
                 bestLoading, detailId, detailMounted, detailProduct,
                 selectedSize, selectedColor, quantity>>

\* the backend answers a suspended getHotSaleProducts: the rest of
\* fetchBestSelling runs (a new array is set, so the component renders again)
BestFetchDone ==
  /\ driver = "best"
  /\ bestPending > 0
  /\ \E outcome \in Outcomes :
       \E resp \in Responses(HotSaleRows(catalog), outcome) :
         LET r == getHotSaleProducts(resp)
         IN IF r.raised THEN UNCHANGED bestSellingProducts
            ELSE bestSellingProducts' = r.value
  /\ bestLoading' = FALSE
  /\ BestFetchEffect(bestPending - 1)
  /\ UNCHANGED <<repoVars, hookVars, pageVars, user, cartCalls, lastClick,
                 onAddToCart, bestMounted, detailId, detailMounted,
                 detailProduct, selectedSize, selectedColor, quantity>>

\* the auth context reports a login or a logout: the component renders again
BestAuthChange ==
  /\ driver = "best"
  /\ bestMounted
  /\ user' = IF user = NullObj THEN User1 ELSE NullObj
  /\ BestFetchEffect(bestPending)
  /\ UNCHANGED <<repoVars, hookVars, pageVars, cartCalls, lastClick,
                 onAddToCart, bestMounted, bestSellingProducts, bestLoading,
                 detailId, detailMounted, detailProduct, selectedSize,
                 selectedColor, quantity>>

\* bestSellingProducts.find(p => parseInt(p.id) === productId)
FindByNumber(prods, productId) ==
  LET hits == {j \in 1..Len(prods) : StrictEq(parseInt(prods[j].id), productId)}
  IN IF hits = {} THEN NullObj
     ELSE prods[CHOOSE j \in hits : \A k \in hits : j <= k]

\* the object handed to the onAddToCart prop
Payload(product) ==
  [id |-> product.id,
   name |-> product.name,
   size |-> IF product.variants # << >> /\ Truthy(product.variants[1].size)
            THEN product.variants[1].size ELSE <<"M">>,
   image |-> PrimaryImageUrl(product)]

BestClick(card, did, productId, payload) ==
  [component |-> "BestSelling", card |-> card, did |-> did,
   productId |-> productId, payload |-> payload]

\* BestSelling.handleAddToCart(productId) for the card of the product
\* card: productId is the card's number; up to the await, and the toast
\* after it
BestHandleAddToCart(card, productId) ==
  LET product == FindByNumber(bestSellingProducts, productId)
  IN IF product = NullObj
     THEN /\ lastClick' = BestClick(card, "nothing", NullStr, NullObj)
          /\ UNCHANGED cartCalls
     ELSE IF onAddToCart
     THEN /\ lastClick' = BestClick(card, "payload", product.id, Payload(product))
          /\ UNCHANGED cartCalls
     ELSE IF user = NullObj
     THEN /\ lastClick' = BestClick(card, "login required", NullStr, NullObj)
          /\ UNCHANGED cartCalls
     ELSE /\ Len(cartCalls) < MaxCartCalls
          /\ cartCalls' = Append(cartCalls,
               CartCall("BestSelling",
                        <<product.id, VariantIdOrNull(firstVariant(product)), 1>>,
                        1))
          /\ \E did \in {"added", "error"} :
               lastClick' = BestClick(card, did, product.id, NullObj)

\* the add-to-cart button of a card of the row is clicked
BestAddToCart ==
  /\ driver = "best"
  /\ bestMounted
  /\ ~bestLoading
  /\ \E i \in 1..Len(bestSellingProducts) :
       BestHandleAddToCart(bestSellingProducts[i].id,
                           BestCard(bestSellingProducts[i]).id)
  /\ UNCHANGED <<repoVars, hookVars, pageVars, user, onAddToCart, bestMounted,
                 bestSellingProducts, bestLoading, bestPending, bestRender, detailId,
                 detailMounted, detailProduct, selectedSize, selectedColor,
                 quantity>>

\* handleQuickView(productId): the product is looked up by its number; it is
\* handed to the onQuickView prop if the parent passed one, otherwise the
\* page navigates to /all-products?product=<id>
BestHandleQuickView(card, productId, withProp) ==
  LET product == FindByNumber(bestSellingProducts, productId)
  IN lastClick' =
       IF product = NullObj THEN BestClick(card, "nothing", NullStr, NullObj)
       ELSE IF withProp THEN BestClick(card, "onQuickView", product.id, NullObj)
       ELSE BestClick(card, "navigate", product.id, NullObj)

\* the quick-view button of a card of the row is clicked
BestQuickView ==
  /\ driver = "best"
  /\ bestMounted
  /\ ~bestLoading
  /\ \E i \in 1..Len(bestSellingProducts), withProp \in BOOLEAN :
       BestHandleQuickView(bestSellingProducts[i].id,
                           BestCard(bestSellingProducts[i]).id, withProp)
  /\ UNCHANGED <<repoVars, hookVars, pageVars, user, cartCalls, onAddToCart,
                 bestMounted, bestSellingProducts, bestLoading, bestPending, bestRender,
                 detailId, detailMounted, detailProduct, selectedSize,
                 selectedColor, quantity>>

(***************************************************************************)
(* ProductDetailPage                                                       *)
(***************************************************************************)
\* the ids the route is followed with
DetailIds == {<<"p","1">>, <<"2">>, <<"z">>}

\* useEffect(..., [products, id]): the product found among the hook's
\* products and the default selections taken from its first variant
DetailEffect(prods) ==
  IF detailId = NullStr \/ detailId = << >>
  THEN UNCHANGED <<detailProduct, selectedSize, selectedColor>>
  ELSE LET foundProduct == FindById(prods, detailId)
       IN /\ detailProduct' = foundProduct
          /\ IF foundProduct # NullObj /\ foundProduct.variants # << >>
             THEN LET v == foundProduct.variants[1]
                  IN /\ selectedSize' = IF Truthy(v.size) THEN v.size ELSE << >>
                     /\ selectedColor' = IF Truthy(v.color_name) THEN v.color_name
                                          ELSE << >>
             ELSE UNCHANGED <<selectedSize, selectedColor>>

\* first render: the hook's mount effect and the page's effect run
DetailMount ==
  /\ driver = "detail"
  /\ ~detailMounted
  /\ detailMounted' = TRUE
  /\ mounted' = TRUE
  /\ StartFetch
  /\ DetailEffect(products)
  /\ UNCHANGED <<repoVars, hookCopy, products, error, lastFetch, pageVars,
                 user, cartCalls, lastClick, onAddToCart, bestMounted,
                 bestSellingProducts, bestLoading, bestPending, bestRender, detailId,
                 quantity>>

\* the hook's fetchProducts completes: products changes, the effect runs
DetailFetchDone ==
  /\ driver = "detail"
  /\ inflight > 0
  /\ \E outcome \in Outcomes :
       \E resp \in Responses(AllActiveRows(catalog), outcome) :
         \E msg \in ErrorMessages(resp) :
           LET h == fetchProducts(resp, msg, HookState)
           IN /\ HookComplete(outcome, h)
              /\ DetailEffect(h.products)
  /\ UNCHANGED <<repoVars, hookCopy, mounted, pageVars,
                 user, cartCalls, lastClick, onAddToCart, bestMounted,
                 bestSellingProducts, bestLoading, bestPending, bestRender, detailId,
                 detailMounted, quantity>>

\* the page shows the product (neither the spinner nor "Product not found")
DetailShown == detailMounted /\ ~loading /\ detailProduct # NullObj

\* an updater that adds the change without clamping
ClampQuantity_unclamped(prev, change) == prev + change

\* setQuantity(prev => Math.max(1, Math.min(10, prev + change)))
ClampQuantity(prev, change) ==
  LET sum == prev + change
      capped == IF sum < 10 THEN sum ELSE 10
  IN IF capped > 1 THEN capped ELSE 1

\* the minus or plus button is clicked (minus is disabled at 1, plus at 10)
HandleQuantityChange ==
  /\ driver = "detail"
  /\ DetailShown
  /\ \E change \in {-1, 1} :
       /\ change = -1 => quantity > 1
       /\ change = 1 => quantity < 10
       /\ quantity' = ClampQuantity(quantity, change)
  /\ UNCHANGED <<repoVars, hookVars, pageVars, user, cartCalls, lastClick,
                 onAddToCart, bestMounted, bestSellingProducts, bestLoading,
                 bestPending, bestRender, detailId, detailMounted, detailProduct,
                 selectedSize, selectedColor>>

DetailClick(did, productId) ==
  [component |-> "ProductDetailPage", card |-> detailId, did |-> did,
   productId |-> productId, payload |-> NullObj]

\* a handler that does not look at the user
DetailHandleAddToCart_noAuthGuard ==
  /\ detailProduct # NullObj
  /\ Len(cartCalls) < MaxCartCalls
  /\ cartCalls' = Append(cartCalls,
       CartCall("ProductDetailPage", <<detailProduct.id>>, quantity))
  /\ lastClick' = DetailClick("added", detailProduct.id)

\* ProductDetailPage.handleAddToCart(): quantity calls of addToCart(id)
DetailHandleAddToCart ==
  IF user = NullObj
  THEN /\ lastClick' = DetailClick("login required", NullStr)
       /\ UNCHANGED cartCalls
  ELSE IF detailProduct = NullObj
  THEN /\ lastClick' = DetailClick("nothing", NullStr)
       /\ UNCHANGED cartCalls
  ELSE /\ Len(cartCalls) < MaxCartCalls
       /\ cartCalls' = Append(cartCalls,
            CartCall("ProductDetailPage", <<detailProduct.id>>, quantity))
       /\ lastClick' = DetailClick("added", detailProduct.id)

\* the Add to Cart button is clicked
DetailAddToCart ==
  /\ driver = "detail"
  /\ DetailShown
  /\ DetailHandleAddToCart
  /\ UNCHANGED <<repoVars, hookVars, pageVars, user, onAddToCart, bestMounted,
                 bestSellingProducts, bestLoading, bestPending, bestRender, detailId,
                 detailMounted, detailProduct, selectedSize, selectedColor,
                 quantity>>

(***************************************************************************)
(* Specification of the views                                              *)
(***************************************************************************)
ViewInit ==
  /\ driver \in {"pagecart", "best", "detail"}
  /\ catalog \in ViewCatalogs
  /\ ret = NoCall
  /\ calls = 0
  /\ queries = 0
  /\ before = NoCall
  /\ hookCopy = "hooks/useProducts"
  /\ mounted = FALSE
  /\ products = << >>
  /\ loading = TRUE
  /\ error = NullStr
  /\ inflight = 0
  /\ lastFetch = "none"
  /\ category = NoCategory
  /\ subcategory = NullStr
  /\ pageMounted = FALSE
  /\ pageProducts = << >>
  /\ pageLoading = TRUE
  /\ filteredProducts = << >>
  /\ selectedFilter = all
  /\ pending = EmptyBag
  /\ lastDone = NoFetch
  /\ uncaught = FALSE
  /\ filterPath = "none"
  /\ user \in {NullObj, User1}
  /\ cartCalls = << >>
  /\ lastClick = NoClick
  /\ onAddToCart \in IF driver = "best" THEN BOOLEAN ELSE {FALSE}
  /\ bestMounted = FALSE
  /\ bestSellingProducts = << >>
  /\ bestLoading = TRUE
  /\ bestPending = 0
  /\ bestRender = 0
  /\ detailId \in IF driver = "detail" THEN DetailIds ELSE {NullStr}
  /\ detailMounted = FALSE
  /\ detailProduct = NullObj
  /\ selectedSize = << >>
  /\ selectedColor = << >>
  /\ quantity = 1

ViewNext ==
  \/ PageMount
  \/ PageFetchDone
  \/ AuthChange
  \/ PageAddToCart
  \/ BestMount
  \/ BestHookFetchDone
  \/ BestFetchDone
  \/ BestAuthChange
  \/ BestAddToCart
  \/ BestQuickView
  \/ DetailMount
  \/ DetailFetchDone
  \/ HandleQuantityChange
  \/ DetailAddToCart

SpecViews == ViewInit /\ [][ViewNext]_vars

(***************************************************************************)
(* BestSelling left alone: the component mounts, nobody clicks or logs in  *)
(* or out, and the backend answers every request it is sent                *)
(***************************************************************************)
BestAloneInit ==
  /\ ViewInit
  /\ driver = "best"

BestAloneNext ==
  \/ BestMount
  \/ BestHookFetchDone
  \/ BestFetchDone

\* the component is rendered once mounted by its parent; every request the
\* backend holds is answered
BestAloneFairness ==
  /\ WF_vars(BestMount)
  /\ WF_vars(BestHookFetchDone)
  /\ WF_vars(BestFetchDone)

SpecBestAlone == BestAloneInit /\ [][BestAloneNext]_vars /\ BestAloneFairness

(***************************************************************************)
(* Properties of useProducts                                               *)
(***************************************************************************)
IdsOf(s) == [i \in 1..Len(s) |-> s[i].id]
NoDuplicates(s) == \A i, j \in 1..Len(s) : s[i] = s[j] => i = j

ListAccessors == {"getProductsByCategory", "getHotSaleProducts", "getAllProducts",
                  "getRelatedProducts", "getRecommendedProducts"}
SingleAccessors == {"getProductBySlug", "getProductById"}
Failed(outcome) == outcome \in {"error", "reject"}

SampleIds == << <<"1">>, <<"2">>, <<"3">> >>

\* C1: whenever the last completed fetchProducts had a failed backend query,
\* the hook's products state is the 3-item sample set with ids "1", "2", "3"
\* (stated for every definition of the hook in the repository).
C1_FetchFailureYieldsSampleSet ==
  Failed(lastFetch) => IdsOf(products) = SampleIds

\* The same for the hook module alone, where it holds.
C1_HookModuleFallsBack ==
  (hookCopy = "hooks/useProducts" /\ Failed(lastFetch)) => products = mockProducts

\* C2: when its backend query fails, getAllProducts returns the 3-item sample
\* set with ids "1", "2", "3".
C2_GetAllProductsFailureYieldsSampleSet ==
  (ret.fn = "getAllProducts" /\ Failed(ret.outcome)) => IdsOf(ret.value) = SampleIds

\* C3: getProductBySlug, getProductById, getProductsByCategory,
\* getHotSaleProducts, getRelatedProducts and getRecommendedProducts complete
\* normally when the backend query fails (error result or rejected request)
\* and return the empty list, respectively null.
C3_FailureReturnsEmptyOrNull ==
  (ret.fn \in (ListAccessors \cup SingleAccessors) \ {"getAllProducts"}
     /\ Failed(ret.outcome))
  => /\ ~ret.raised
     /\ IF ret.fn \in SingleAccessors THEN ret.value = NullObj
                                      ELSE ret.value = << >>

C3_Witness ==
  /\ ret.fn = "getRelatedProducts"
  /\ ret.outcome = "reject"
  /\ ~ret.raised
  /\ ret.value = << >>
  /\ \E p \in catalog : /\ p.category_id = ret.args.categoryId
                        /\ p.id # ret.args.excludeProductId
                        /\ p.is_active
  /\ ret.args.limit > 0

Recommendable(cat) ==
  {p \in Select(cat) : p.is_active /\ (p.is_hot_sale \/ p.rating >= 4)}

\* C4: a successful getRecommendedProducts(limit) returns only active products
\* that are hot-sale or rated >= 4, in descending rating order, as many as
\* qualify up to limit, and none left out is rated above one returned; for
\* the catalog {hot/5, not-hot/3, not-hot/4} and limit 2 it returns the first
\* and the third, rating 5 before rating 4.
C4_RecommendedTopRated ==
  (ret.fn = "getRecommendedProducts" /\ ret.outcome = "ok")
  => LET v == ret.value
         Q == Recommendable(catalog)
     IN /\ Range(v) \subseteq Q
        /\ NoDuplicates(v)
        /\ \A i, j \in 1..Len(v) : i < j => v[i].rating >= v[j].rating
        /\ Len(v) = Min(ret.args.limit, Cardinality(Q))
        /\ \A q \in Q \ Range(v) : \A i \in 1..Len(v) : q.rating <= v[i].rating
        /\ (catalog = {PA, PB, PC} /\ ret.args.limit = 2)
             => v = <<Embed(PA), Embed(PC)>>

C4_Witness ==
  /\ ret.fn = "getRecommendedProducts"
  /\ ret.outcome = "ok"
  /\ catalog = {PA, PB, PC}
  /\ ret.args.limit = 2
  /\ IdsOf(ret.value) = << <<"p","1">>, <<"2">> >>

\* C5: getRelatedProducts(categoryId, excludeProductId, limit) returns at most
\* limit products, each active and of category categoryId, none with id
\* excludeProductId.
C5_RelatedBounded ==
  ret.fn = "getRelatedProducts"
  => LET v == ret.value
     IN /\ Len(v) <= ret.args.limit
        /\ \A i \in 1..Len(v) :
             /\ v[i].is_active
             /\ v[i].category_id = ret.args.categoryId
             /\ v[i].id # ret.args.excludeProductId
             /\ v[i] \in Select(catalog)

\* four products of category c1, p1 among them, limit 2: two results, not p1
C5_Witness ==
  /\ ret.fn = "getRelatedProducts"
  /\ ret.outcome = "ok"
  /\ catalog = {PA, PB, PC, PD}
  /\ ret.args = [categoryId |-> <<"c1">>, excludeProductId |-> <<"p","1">>, limit |-> 2]
  /\ Len(ret.value) = 2

ActiveMatches(cat, fn, args) ==
  {p \in Select(cat) : /\ p.is_active
                       /\ IF fn = "getProductBySlug" THEN p.slug = args.slug
                                                     ELSE p.id = args.id}

\* C7: getProductBySlug (getProductById) returns a product only when exactly
\* one active product has that slug (id), and then that product; with zero or
\* several active matches it returns null.
C7_SingleMatchOrNull ==
  ret.fn \in SingleAccessors
  => LET M == ActiveMatches(catalog, ret.fn, ret.args)
     IN /\ ret.value # NullObj => (Cardinality(M) = 1 /\ ret.value \in M)
        /\ (ret.outcome = "ok" /\ Cardinality(M) = 1) => ret.value \in M
        /\ Cardinality(M) # 1 => ret.value = NullObj

\* two active products share the slug: not-found
C7_Witness ==
  /\ ret.fn = "getProductBySlug"
  /\ ret.outcome = "ok"
  /\ Cardinality(ActiveMatches(catalog, ret.fn, ret.args)) = 2
  /\ ret.value = NullObj

ReturnedProducts ==
  IF ret.fn \in ListAccessors THEN Range(ret.value)
  ELSE IF ret.fn \in SingleAccessors /\ ret.value # NullObj THEN {ret.value}
  ELSE {}

\* C8: every product an accessor returns, and every product fetchProducts
\* puts in the hook's products state, is active.
C8_OnlyActiveProducts ==
  /\ \A p \in ReturnedProducts : p.is_active
  /\ \A p \in Range(products) : p.is_active

\* an inactive hot-sale product is in the table and is not returned
C8_Witness ==
  /\ ret.fn = "getHotSaleProducts"
  /\ ret.outcome = "ok"
  /\ PG \in catalog
  /\ Len(ret.value) > 0

(***************************************************************************)
(* Properties of ProductsPage                                              *)
(***************************************************************************)
InCategory(cat, categorySlug) ==
  {p \in Select(cat) : /\ p.is_active
                       /\ p.category # NullObj
                       /\ p.category.slug = categorySlug}

\* C6: for the route category "men" the page calls getProductsByCategory with
\* the slug "mens-t-shirts", and a successful fetch leaves in products exactly
\* the active products whose category slug is "mens-t-shirts" (none of another
\* category, none without a category).
C6_MenFetchesMensTShirts ==
  /\ \A f \in BagToSet(pending) :
       f.category = "men" => /\ f.fn = "getProductsByCategory"
                             /\ f.categorySlug = "mens-t-shirts"
  /\ (lastDone.category = "men" /\ lastDone.outcome = "ok")
     => /\ lastDone.fn = "getProductsByCategory"
        /\ lastDone.categorySlug = "mens-t-shirts"
        /\ Range(lastDone.value) = InCategory(catalog, "mens-t-shirts")
        /\ NoDuplicates(lastDone.value)
        /\ pageProducts = lastDone.value

C6_Witness ==
  /\ lastDone.category = "men"
  /\ lastDone.outcome = "ok"
  /\ {PA, PE, PF} \subseteq catalog
  /\ Embed(PA) \in Range(pageProducts)
  /\ Embed(PE) \notin Range(pageProducts)
  /\ Embed(PF) \notin Range(pageProducts)

\* the slugs documented for the keys of the category table
DocumentedSlug ==
  ("men" :> "mens-t-shirts") @@ ("men-tshirts" :> "mens-t-shirts") @@
  ("men-bottomwear" :> "mens-bottomwear") @@
  ("women" :> "womens-leggings") @@ ("women-leggings" :> "womens-leggings") @@
  ("shapewear" :> "saree-shapewear") @@ ("nightwear" :> "night-wear")

\* C9: getCategorySlug gives each key of its table the documented slug, and
\* every other string is returned unchanged (read off the slug of each fetch
\* the fetch effect issued for a route category).
C9_GetCategorySlugTableOrIdentity ==
  \A f \in BagToSet(pending) :
    f.fn = "getProductsByCategory"
    => f.categorySlug = IF f.category \in DOMAIN DocumentedSlug
                        THEN DocumentedSlug[f.category]
                        ELSE f.category

\* The same over the strings that name no property of Object.prototype,
\* where it holds.
C9_OwnKeysOrIdentity ==
  \A cat \in (DOMAIN DocumentedSlug \cup RouteCategories \cup CategorySlugs)
             \ ObjectPrototypeKeys :
    getCategorySlug(cat) = IF cat \in DOMAIN DocumentedSlug
                           THEN DocumentedSlug[cat] ELSE cat

IsAllToken(token) ==
  token = NullStr \/ token = << >> \/ toLowerCase(token) = all

\* C10: when the token a filter path was given (the selected filter it
\* leaves) is empty, absent or "all" in any letter case, the filtered list
\* equals products, in contents and order.
C10_AllTokenShowsEverything ==
  (pageMounted /\ IsAllToken(selectedFilter)) => filteredProducts = pageProducts

\* The same for the two spellings the code tests, 'all' and 'All', where it
\* holds.
C10_ExactAllShowsEverything ==
  (pageMounted /\ selectedFilter \in {all, AllLabel}) => filteredProducts = pageProducts

(***************************************************************************)
(* Properties of ProductsPage: the two filter paths                        *)
(***************************************************************************)
\* t occurs in s as a contiguous substring, letter case ignored
ContainsFold(s, t) ==
  \E i \in 1..(Len(s) - Len(t) + 1) :
    toLowerCase(SubSeq(s, i, i + Len(t) - 1)) = toLowerCase(t)

\* the product matches the token by its name or by its (non-null) description
TokenMatch(product, token) ==
  \/ ContainsFold(product.name, token)
  \/ product.description # NullStr /\ ContainsFold(product.description, token)

\* the subsequence of prods that matches the token
Matching(prods, token) ==
  LET Test(product) == TokenMatch(product, token)
  IN SelectSeq(prods, Test)

\* a filter path has produced a filtered list for a token that is non-empty
\* and not "all" (the effect tests 'all', the click handler 'All' and 'all')
FilteredByToken ==
  \/ filterPath = "effect" /\ Truthy(selectedFilter) /\ selectedFilter # all
  \/ filterPath = "click" /\ ~uncaught /\ selectedFilter \notin {all, AllLabel}

\* C11: for a non-empty token other than "all", the filtered list a filter
\* path (subcategory effect or filter-tab click) produces is exactly the
\* subsequence of products, in the original order, of the products whose
\* name or description contains the token, letter case ignored.
C11_FilteredIsMatchingSubsequence ==
  FilteredByToken => filteredProducts = Matching(pageProducts, selectedFilter)

\* a path has produced a proper subsequence that holds a product matched by
\* its name and a product matched by its description only
C11_Witness ==
  /\ FilteredByToken
  /\ Len(filteredProducts) < Len(pageProducts)
  /\ \E i, j \in 1..Len(filteredProducts) :
       /\ ContainsFold(filteredProducts[i].name, selectedFilter)
       /\ ~ContainsFold(filteredProducts[j].name, selectedFilter)

\* a filter path was last run with a token that is non-empty and not "all"
RanWithToken ==
  \/ filterPath = "effect" /\ Truthy(selectedFilter) /\ selectedFilter # all
  \/ filterPath = "click" /\ selectedFilter \notin {all, AllLabel}

\* C12: under both filter paths the filter operation completes with a
\* filtered list whatever products the list holds, and a product whose
\* description is null is in that list iff its name contains the token.
C12_NullDescriptionNeverMatches ==
  RanWithToken =>
    /\ ~uncaught
    /\ \A i \in 1..Len(pageProducts) :
         pageProducts[i].description = NullStr
         => (pageProducts[i] \in Range(filteredProducts)
             <=> ContainsFold(pageProducts[i].name, selectedFilter))

\* The same for the subcategory effect alone, where it holds.
C12_EffectSkipsNullDescription ==
  (RanWithToken /\ filterPath = "effect") =>
    \A i \in 1..Len(pageProducts) :
      pageProducts[i].description = NullStr
      => (pageProducts[i] \in Range(filteredProducts)
          <=> ContainsFold(pageProducts[i].name, selectedFilter))

\* the labels of the filter tabs, and the tokens the URL is followed with
ClickTokens == UNION {Range(filterMap[cat]) : cat \in DOMAIN filterMap}
EffectTokens == Subcategories \cup ClickTokens

\* C13: the subcategory filter is idempotent: for every product list and
\* every token, filtering the filtered list again by the same token gives
\* the same list, in contents and order (both paths, over every fetched
\* list; the click handler where it produces a list).
C13_FilterIdempotent ==
  /\ \A token \in EffectTokens :
       LET once == SubcategoryEffect(pageProducts, token).filtered
       IN SubcategoryEffect(once, token).filtered = once
  /\ \A filter \in ClickTokens :
       LET once == FilterClick(pageProducts, filteredProducts, filter)
       IN ~once.threw
          => FilterClick(once.filtered, once.filtered, filter)
               = [threw |-> FALSE, filtered |-> once.filtered]

\* each path filters a fetched list down to a proper, non-empty sublist
C13_Witness ==
  /\ \E token \in EffectTokens :
       LET once == SubcategoryEffect(pageProducts, token).filtered
       IN once # << >> /\ Len(once) < Len(pageProducts)
  /\ \E filter \in ClickTokens :
       LET once == FilterClick(pageProducts, filteredProducts, filter)
       IN ~once.threw /\ once.filtered # << >>
          /\ Len(once.filtered) < Len(pageProducts)

\* C14: filtering never changes the fetched product set: whatever URL
\* subcategory changes and filter-tab clicks have happened, products equals,
\* in contents and order, the result of the last completed fetch (the empty
\* list before any fetch completed).
C14_ProductsIsLastFetchResult ==
  pageProducts = IF lastDone = NoFetch THEN << >> ELSE lastDone.value

\* a click has narrowed the list shown below the fetched one
C14_Witness ==
  /\ lastDone # NoFetch
  /\ filterPath = "click"
  /\ ~uncaught
  /\ Len(filteredProducts) < Len(pageProducts)
  /\ pageProducts = lastDone.value

C19_OwnKeysOrAll ==
  \A cat \in (DOMAIN filterMap \cup RouteCategories \cup {"all"})
             \ ObjectPrototypeKeys :
    /\ Head(getSubcategoryFilters(cat)) = AllLabel
    /\ cat \notin DOMAIN filterMap => getSubcategoryFilters(cat) = <<AllLabel>>

\* C20: a superseded fetch is not discarded: when the fetch that completed
\* last was issued for a route category other than the current one, products
\* holds its result all the same.
C20_LateResponseApplied ==
  (lastDone # NoFetch /\ lastDone.category # category)
  => pageProducts = lastDone.value

\* no fetch is in flight, the route is on category B, and products and
\* filteredProducts hold the non-empty result fetched for category A, which
\* is not what B's fetch returns
C20_Witness ==
  /\ pending = EmptyBag
  /\ ~pageLoading
  /\ lastDone # NoFetch
  /\ lastDone.category = "men"
  /\ category = "all"
  /\ lastDone.outcome = "ok"
  /\ pageProducts = lastDone.value
  /\ filteredProducts = pageProducts
  /\ pageProducts # << >>
  /\ \A rows \in AllActiveRows(catalog) : Range(rows) # Range(pageProducts)

(***************************************************************************)
(* Properties of the views                                                 *)
(***************************************************************************)
\* url is a right representative image of the product: the url of one of
\* its is_primary images when it has one, the placeholder when it has no image
RepresentsProduct(url, product) ==
  /\ (\E i \in 1..Len(product.images) : product.images[i].is_primary)
     => \E i \in 1..Len(product.images) :
          product.images[i].is_primary /\ product.images[i].image_url = url
  /\ product.images = << >> => url = Placeholder

\* the cards ProductsPage and BestSelling show
PageCardsShown ==
  IF pageMounted /\ ~pageLoading THEN Range(filteredProducts) ELSE {}
BestCardsShown ==
  IF bestMounted /\ ~bestLoading THEN Range(bestSellingProducts) ELSE {}

\* C15: the image chosen to represent a product (card of ProductsPage, card
\* and add-to-cart payload of BestSelling, main image of
\* ProductDetailPage) is the url of an is_primary image whenever the
\* product has one, wherever it sits among the images, and the placeholder
\* when the product has no image.
C15_PrimaryImageRepresentsProduct ==
  /\ \A product \in PageCardsShown :
       RepresentsProduct(PageCard(product).image, product)
  /\ \A product \in BestCardsShown :
       RepresentsProduct(BestCard(product).image, product)
  /\ lastClick.did = "payload"
     => RepresentsProduct(lastClick.payload.image,
                          CHOOSE p \in catalog : p.id = lastClick.productId)
  /\ DetailShown => RepresentsProduct(MainImage(detailProduct), detailProduct)

\* The same for the payload of BestSelling and the main image of
\* ProductDetailPage alone, where it holds.
C15_PayloadAndMainImageArePrimary ==
  /\ lastClick.did = "payload"
     => RepresentsProduct(lastClick.payload.image,
                          CHOOSE p \in catalog : p.id = lastClick.productId)
  /\ DetailShown => RepresentsProduct(MainImage(detailProduct), detailProduct)

\* no two entries of the list are equal, and none is null or the empty string
DistinctLabels(labels) ==
  /\ \A i, j \in 1..Len(labels) : i # j => labels[i] # labels[j]
  /\ \A i \in 1..Len(labels) : Truthy(labels[i])

NamesOf(facets) == [i \in 1..Len(facets) |-> facets[i].name]

\* C16: the color and size facets shown for a product (size options and
\* color swatches of ProductDetailPage, colors and sizes of a BestSelling
\* card) never hold the same color name or size label twice, and never a
\* null or empty name or label.
C16_FacetsDistinctAndNamed ==
  /\ DetailShown
     => /\ DistinctLabels(SizeOptions(detailProduct))
        /\ DistinctLabels(NamesOf(ColorSwatches(detailProduct)))
  /\ \A product \in BestCardsShown :
       /\ DistinctLabels(BestCard(product).sizes)
       /\ DistinctLabels(NamesOf(BestCard(product).colors))

\* What does hold: no facet is null or empty, and the size options of
\* ProductDetailPage are distinct.
C16_FacetsNamedSizeOptionsDistinct ==
  /\ DetailShown
     => /\ DistinctLabels(SizeOptions(detailProduct))
        /\ \A i \in 1..Len(ColorSwatches(detailProduct)) :
             Truthy(ColorSwatches(detailProduct)[i].name)
  /\ \A product \in BestCardsShown :
       /\ \A i \in 1..Len(BestCard(product).sizes) :
            Truthy(BestCard(product).sizes[i])
       /\ \A i \in 1..Len(BestCard(product).colors) :
            Truthy(BestCard(product).colors[i].name)

\* the id of the first variant of the product, in collection order, that is
\* active and in stock; null when there is none
FirstPurchasableId(product) ==
  LET purchasable == {i \in 1..Len(product.variants) :
                        /\ product.variants[i].is_active
                        /\ product.variants[i].stock_quantity > 0}
  IN IF purchasable = {} THEN NullStr
     ELSE product.variants[CHOOSE i \in purchasable :
                             \A j \in purchasable : i <= j].id

CardCalls ==
  {i \in 1..Len(cartCalls) : cartCalls[i].by \in {"ProductsPage", "BestSelling"}}

\* C17: the variant passed to the cart service on add-to-cart in
\* ProductsPage and in BestSelling (database-cart path) is the first variant
\* of the product, in collection order, with is_active = true and
\* stock_quantity > 0, and null when every variant is inactive or out of
\* stock, even if the product has variants.
C17_FirstPurchasableVariant ==
  \A i \in CardCalls :
    LET productId == cartCalls[i].args[1]
        product == CHOOSE p \in catalog : p.id = productId
    IN cartCalls[i].args = <<productId, FirstPurchasableId(product), 1>>

\* ProductsPage has added a product whose first variant is out of stock and
\* whose second was chosen, and a product with variants none of which can
\* be bought
C17_Witness ==
  \E i, j \in CardCalls :
    /\ cartCalls[i].by = "ProductsPage"
    /\ cartCalls[i].args = <<PA.id, <<"v2">>, 1>>
    /\ cartCalls[j].args = <<PC.id, NullStr, 1>>

\* C18: the cart service's add operation is never invoked while the current
\* user is null: every call made by ProductsPage, ProductDetailPage and
\* BestSelling (database-cart path) was made under a logged-in user, so
\* clicks made while logged out add no call.
C18_NoCartCallWithoutUser ==
  \A i \in 1..Len(cartCalls) : cartCalls[i].user # NullObj

\* a click made while logged out was turned away, after a call made while
\* logged in
C18_Witness ==
  /\ user = NullObj
  /\ lastClick.did = "login required"
  /\ Len(cartCalls) = 1
  /\ cartCalls[1].by = lastClick.component


\* ---------------------------------------------------------------------
\* C21: every invocation of an accessor sends exactly one query to the
\* backend: a step in which a call completes adds one invocation and one
\* query, whatever the outcome of the query (a failed query is not sent
\* again) and whatever was called before (a repeated call with the same
\* arguments sends its own query); nothing else sends accessor queries.
C21_OneQueryPerInvocation ==
  [][ /\ (ret = NoCall /\ ret' # NoCall) =>
           (calls' = calls + 1 /\ queries' = queries + 1)
      /\ ret' = NoCall => (calls' = calls /\ queries' = queries)
      /\ queries' = calls' ]_vars

\* a call failed, the consumer made the same call again, and the second
\* call got its own answer from the backend
C21_Witness ==
  /\ before # NoCall
  /\ ret # NoCall
  /\ ret.fn = before.fn
  /\ ret.args = before.args
  /\ before.outcome = "error"
  /\ ret.outcome = "ok"
  /\ ret.fn = "getProductBySlug"
  /\ ret.value # NullObj
  /\ calls = 2
  /\ queries = 2

\* ---------------------------------------------------------------------
\* C22: left alone with a backend that answers every request, BestSelling
\* comes to rest: from some point on the component is mounted, no
\* getHotSaleProducts call is waiting for its answer and no fetch of the
\* hook is in flight (so getHotSaleProducts is not called again).
C22_BestSellingComesToRest ==
  <>[](bestMounted /\ bestPending = 0 /\ inflight = 0)

\* C22, what the component does instead: every answer to getHotSaleProducts
\* sets a new array, the render that follows runs the fetch effect again,
\* so from the mount on a getHotSaleProducts call is always waiting
C22_AlwaysOneMoreFetch ==
  bestMounted => bestPending > 0

\* C22: every answered getHotSaleProducts call leaves one call waiting
C22_AnswerStartsNextFetch ==
  [][(bestMounted /\ bestPending' # bestPending) => bestPending' > bestPending]_vars

\* ---------------------------------------------------------------------
\* C23: on ProductsPage, loading is true whenever a fetch started by the
\* fetch effect has not been answered yet (a fetch for the category the
\* route had before the last change included).
C23_LoadingWhileFetchInFlight ==
  pending # EmptyBag => pageLoading

\* C23, what the code guarantees: loading is true from the start of a fetch
\* until the first answer to any fetch arrives; it is false only after an
\* answer, and true whenever no answer has arrived since the last start
C23_LoadingUntilAnAnswer ==
  [][ /\ (BagCardinality(pending') > BagCardinality(pending)) => pageLoading'
      /\ (pageLoading /\ ~pageLoading') =>
            BagCardinality(pending') < BagCardinality(pending) ]_vars

\* ---------------------------------------------------------------------
\* the list the selected filter stands for: all of prods for "all" in any
\* letter case, otherwise the products whose name or description contains it
FilterOf(prods, selected) ==
  IF toLowerCase(selected) = all THEN prods ELSE Matching(prods, selected)

\* C24: on ProductsPage, once the effects of a render have run, the filtered
\* list is the filter of products by the selected filter, after any fetch
\* completions, URL subcategory changes and filter-tab clicks.
C24_FilteredFollowsSelectedFilter ==
  pageMounted => filteredProducts = FilterOf(pageProducts, selectedFilter)

\* C24, where it holds: the last filter path did not raise, and the selected
\* filter is not "all" in a spelling the code does not test
C24_FollowsUnlessThrownOrUntestedAll ==
  (/\ pageMounted
   /\ ~(filterPath = "click" /\ uncaught)
   /\ (toLowerCase(selectedFilter) = all => selectedFilter \in {all, AllLabel}))
  => filteredProducts = FilterOf(pageProducts, selectedFilter)

\* C24: a filter-tab click raised: the selected filter is the clicked label,
\* the filtered list is still the one of the filter selected before
C24_StaleAfterThrowingClick ==
  /\ filterPath = "click"
  /\ uncaught
  /\ filteredProducts # FilterOf(pageProducts, selectedFilter)

\* ---------------------------------------------------------------------
\* a fetchProducts call (of the mount effect or a refetch) completes
FetchCompletes == inflight' = inflight - 1

\* the state the completed call must leave: loading false, error null after
\* a query that succeeded, an error message after one that failed
ErrorFollowsOutcome ==
  /\ loading' = FALSE
  /\ (lastFetch' = "ok") <=> (error' = NullStr)

\* C25: immediately after any fetchProducts call of the hook completes,
\* loading is false and error is null exactly if the call's query succeeded,
\* whatever the outcomes of the calls before.
C25_ErrorFollowsLastOutcome ==
  [][FetchCompletes => ErrorFollowsOutcome]_vars

\* C25, for the hook module (hooks/useProducts), where it holds
C25_HookModuleErrorFollowsLastOutcome ==
  [][(FetchCompletes /\ hookCopy = "hooks/useProducts") => ErrorFollowsOutcome]_vars

\* C25, the copy in client/main.tsx: loading is false after every completed
\* call, and a failed call leaves a message; a success never clears one
C25_MainCopyKeepsError ==
  [][(FetchCompletes /\ hookCopy = "client/main.tsx") =>
       /\ loading' = FALSE
       /\ lastFetch' # "ok" => error' # NullStr
       /\ lastFetch' = "ok" => error' = error]_vars

\* C25: in the hook module a call succeeded after a failed one and cleared
\* the error
C25_HookModuleClearsError ==
  /\ driver = "hook"
  /\ hookCopy = "hooks/useProducts"
  /\ lastFetch = "ok"
  /\ error = NullStr
  /\ products # mockProducts
  /\ ~loading
  /\ inflight = 0

\* ---------------------------------------------------------------------
\* a click on a BestSelling card whose handler was not stopped by the login
\* check
BestCardClicked ==
  /\ lastClick.component = "BestSelling"
  /\ lastClick.did # "login required"

\* C26: in BestSelling, a click on a product's card (add to cart or quick
\* view, the handler being given parseInt(product.id)) acts on that same
\* product: the payload, the cart call, the onQuickView call or the
\* navigation carries the clicked product's own string id.
C26_ClickActsOnClickedProduct ==
  BestCardClicked => lastClick.productId = lastClick.card

\* the numbers of the cards in the row are numbers and pairwise different
CardNumbersTellProductsApart ==
  \A i, j \in 1..Len(bestSellingProducts) :
    /\ parseInt(bestSellingProducts[i].id) # NaN
    /\ i # j => parseInt(bestSellingProducts[i].id) # parseInt(bestSellingProducts[j].id)

\* C26, where it holds: in the step of a click on a row whose card numbers
\* are numbers and pairwise different, the handler acts on the clicked product
C26_ActsOnClickedProductIfNumbersDiffer ==
  [][(lastClick' # lastClick /\ CardNumbersTellProductsApart /\ BestCardClicked')
       => lastClick'.productId = lastClick'.card]_vars

\* C26: a quick-view click on the card of product "1a" navigated to
\* product "1", and a click on the card of product "x" did nothing
C26_QuickViewOfOtherProduct ==
  /\ lastClick.component = "BestSelling"
  /\ lastClick.did = "navigate"
  /\ lastClick.card = <<"1","a">>
  /\ lastClick.productId = <<"1">>

C26_NothingForNonNumericId ==
  /\ lastClick.component = "BestSelling"
  /\ lastClick.did = "nothing"
  /\ lastClick.card = <<"x">>

\* ---------------------------------------------------------------------
\* C27: on ProductDetailPage the quantity is always between 1 and 10: it is
\* 1 until the page is shown, and handleQuantityChange(+1 or -1), applied to
\* the quantity of any reachable state, gives a quantity in that range:
\* the quantity itself for -1 at 1 and for +1 at 10, otherwise the quantity
\* plus the change.
C27_QuantityBetween1And10 ==
  /\ quantity \in 1..10
  /\ ~detailMounted => quantity = 1
  /\ \A change \in {-1, 1} :
       LET next == ClampQuantity(quantity, change)
       IN /\ next \in 1..10
          /\ next = IF (quantity = 1 /\ change = -1) \/ (quantity = 10 /\ change = 1)
                    THEN quantity
                    ELSE quantity + change

\* C27: every step of the quantity is one the handler makes: by one, up
\* or down, inside the range
C27_QuantityStepsByOne ==
  [][quantity' # quantity =>
       /\ quantity' \in {quantity - 1, quantity + 1}
       /\ quantity' \in 1..10]_vars

\* the plus button has been clicked up to the upper end of the range, where
\* the handler leaves the quantity unchanged
C27_Witness ==
  /\ driver = "detail"
  /\ DetailShown
  /\ quantity = 10
  /\ ClampQuantity(quantity, 1) = 10
====
